---- MODULE Spec2Model ----
(***************************************************************************)
(* A model of parse_words.py: the prefix trie (add_to_prefix_trie,         *)
(* make_prefix_trie, prefixes_of), the cons-cell Chain, and the memoized   *)
(* recursion of solution_recursive, unrolled into one step per call,       *)
(* loop iteration and return of recur.                                     *)
(*                                                                         *)
(* A str is a sequence of one-character strings.  A dict is a function;    *)
(* a trie node is a dict whose letter keys map to child dicts and whose    *)
(* key "" maps to the word that ends there.  An Optional value is the set  *)
(* None == {} or Some(x) == {x}.                                           *)
(***************************************************************************)
EXTENDS Integers, Sequences, FiniteSets, TLC

VARIABLES text, words, pc, inserted, first, dups, trie, cache, stack, ret,
          outcome, evals, requests, prev

vars == <<text, words, pc, inserted, first, dups, trie, cache, stack, ret,
          outcome, evals, requests, prev>>

----------------------------------------------------------------------------
(* Bounds of the explored inputs. *)

MaxTextLen == 3

MaxWords == 2

MaxDup == 1

Letters == {"a", "b"}

\* The strs a word of an explored dictionary is drawn from; the empty str is
\* one of them, since nothing in the code rejects it.
Vocabulary ==
    { <<>>, <<"a">>, <<"b">>, <<"a","a">>, <<"a","b">>, <<"b","a">>, <<"b","b">> }

----------------------------------------------------------------------------
(* Values. *)

None == {}

Some(x) == {x}

The(o) == CHOOSE x \in o : TRUE

EmptyDict == [k \in {} |-> {}]

EmptyKey == ""

Space == " "

\* dict.get(key): None when the key is absent.
Get(d, key) == IF key \in DOMAIN d THEN Some(d[key]) ELSE None

\* text[index:]
Slice(s, index) == SubSeq(s, index + 1, Len(s))

StrOf(n) == UNION {[1..k -> Letters] : k \in 0..n}

----------------------------------------------------------------------------
(* The demo of the __main__ block. *)

DemoText == <<"i","n","i","n","i","s","b","a","r","f","i","s","h">>

DemoWords == { <<"f","o","o">>, <<"b","a","r">>, <<"f","i","s","h">>, <<"h">>,
               <<"i","s">>, <<"i","n","i">>, <<"i","n">> }

\* The interpreter's recursion limit, kept above every depth that a
\* position-increasing recursion over the explored texts can reach.
RecursionLimit == (IF MaxTextLen > Len(DemoText) THEN MaxTextLen ELSE Len(DemoText)) + 2

----------------------------------------------------------------------------
(* Chain: ChainLink.EMPTY and cons cells <<value, suffix>>. *)

EMPTY == <<>>

ChainLink(value, suffix) == <<value, suffix>>

prepend(value, chain) == ChainLink(value, chain)

RECURSIVE Iter(_)
\* ChainLink.__iter__: the values from the head up to ChainLink.EMPTY.
Iter(chain) ==
    IF chain = EMPTY THEN <<>>
    ELSE <<chain[1]>> \o Iter(chain[2])

RECURSIVE Join(_)
\* ' '.join(items) for a sequence of strs.
Join(items) ==
    IF items = <<>> THEN <<>>
    ELSE IF Len(items) = 1 THEN items[1]
    ELSE items[1] \o <<Space>> \o Join(Tail(items))

----------------------------------------------------------------------------
(* The prefix trie. *)

RECURSIVE add_to_prefix_trie_from(_, _, _)
\* add_to_prefix_trie without its `value is not None` branch: the child for a
\* letter is always a new dict, and an existing subtree is dropped.
add_to_prefix_trie_from_fresh(node, rest, word) ==
    IF rest = <<>> THEN (EmptyKey :> word) @@ node
    ELSE (Head(rest) :> add_to_prefix_trie_from(EmptyDict, Tail(rest), word)) @@ node

\* The loop of add_to_prefix_trie from the node `node` on, with `rest` the
\* letters still to walk: follow the child for the next letter or create it,
\* and set the key "" of the last node to the word.  The result is the node
\* after the in-place updates below it.
add_to_prefix_trie_from(node, rest, word) ==
    IF rest = <<>> THEN (EmptyKey :> word) @@ node
    ELSE LET letter == Head(rest)
             value  == Get(node, letter)
             next   == IF value # None THEN The(value) ELSE EmptyDict
         IN  (letter :> add_to_prefix_trie_from(next, Tail(rest), word)) @@ node

RECURSIVE add_marking_every_node(_, _, _)
add_marking_every_node(node, rest, word) ==
    IF rest = <<>> THEN (EmptyKey :> word) @@ node
    ELSE LET letter == Head(rest)
             value  == Get(node, letter)
             next   == IF value # None THEN The(value) ELSE EmptyDict
         IN  (letter :> add_marking_every_node((EmptyKey :> word) @@ next, Tail(rest), word))
               @@ node

\* add_to_prefix_trie with `trie[''] = word` inside the loop: every node
\* below the root on the word's path is marked.
add_to_prefix_trie_marking(root, word) == add_marking_every_node(root, word, word)

add_to_prefix_trie(root, word) == add_to_prefix_trie_from(root, word, word)

RECURSIVE prefixes_walk(_, _)
\* prefixes_of without its `return` on a missing edge: the letter is skipped
\* and the walk goes on from the same node.
prefixes_walk_skipping(s, node) ==
    IF s = <<>> THEN <<>>
    ELSE LET next == Get(node, Head(s))
         IN  IF next = None THEN prefixes_walk(Tail(s), node)
             ELSE LET prefix == Get(The(next), EmptyKey)
                  IN  (IF prefix # None THEN <<The(prefix)>> ELSE <<>>)
                        \o prefixes_walk(Tail(s), The(next))

\* The for loop of prefixes_of: descend one letter at a time, stop at the
\* first letter with no edge, yield the word of every node that has one.
prefixes_walk(s, node) ==
    IF s = <<>> THEN <<>>
    ELSE LET next == Get(node, Head(s))
         IN  IF next = None THEN <<>>
             ELSE LET prefix == Get(The(next), EmptyKey)
                  IN  (IF prefix # None THEN <<The(prefix)>> ELSE <<>>)
                        \o prefixes_walk(Tail(s), The(next))

\* prefixes_of that stops after its first yield.
prefixes_of_first_only(s, root) ==
    LET all == (IF Get(root, EmptyKey) # None THEN <<The(Get(root, EmptyKey))>> ELSE <<>>)
                 \o prefixes_walk(s, root)
    IN  IF all = <<>> THEN <<>> ELSE <<all[1]>>

\* Everything the generator prefixes_of(s, root) yields, in order.
prefixes_of(s, root) ==
    LET prefix == Get(root, EmptyKey)
    IN  (IF prefix # None THEN <<The(prefix)>> ELSE <<>>) \o prefixes_walk(s, root)

----------------------------------------------------------------------------
(* solution_recursive. *)

NoOutcome == [kind |-> "running", value |-> <<>>]

Raised(name) == [kind |-> name, value |-> <<>>]

Returned(s) == [kind |-> "return", value |-> s]

\* Lines 138-140: `return Non` names nothing, so the None branch raises
\* NameError; ' '.join iterates the chain, and ChainNull has no __iter__.
Render(chain) ==
    IF chain = None THEN Raised("NameError")
    ELSE IF The(chain) = EMPTY THEN Raised("TypeError")
    ELSE Returned(Join(Iter(The(chain))))

NoRet == [has |-> FALSE, val |-> None]

Top == stack[Len(stack)]

\* A call of recur whose body has been entered: its argument, what the
\* generator of its for loop yields (nothing is asked of it when the suffix
\* is empty), how many of those the loop has taken, and the loop variable.
Frame(index) ==
    [index  |-> index,
     gen    |-> IF Slice(text, index) = <<>> THEN <<>>
                ELSE prefixes_of(Slice(text, index), trie),
     taken  |-> 0,
     prefix |-> <<>>]

Inputs ==
    {<<t, d>> : t \in StrOf(MaxTextLen),
                d \in {x \in SUBSET Vocabulary : Cardinality(x) <= MaxWords}}
    \cup {<<DemoText, DemoWords>>}

Fresh ==
    /\ pc = "build"
    /\ inserted = {}
    /\ first = None
    /\ dups = 0
    /\ trie = EmptyDict
    /\ cache = EmptyDict
    /\ stack = <<>>
    /\ ret = NoRet
    /\ outcome = NoOutcome
    /\ evals = [p \in 0..Len(text) |-> 0]
    /\ requests = {}

Init ==
    /\ \E in \in Inputs : text = in[1] /\ words = in[2]
    /\ prev = None
    /\ Fresh

\* One iteration of make_prefix_trie's loop.  The iterable yields the
\* members of `words` in any order; an iterable that is not a set may yield
\* a member again.
AddWord ==
    /\ pc = "build"
    /\ \E word \in words :
         /\ \/ word \notin inserted /\ dups' = dups
            \/ word \in inserted /\ dups < MaxDup /\ dups' = dups + 1
         /\ trie' = add_to_prefix_trie(trie, word)
         /\ inserted' = inserted \cup {word}
         /\ first' = IF first = None THEN Some(word) ELSE first
    /\ UNCHANGED <<text, words, pc, cache, stack, ret, outcome, evals, requests, prev>>

\* Line 137: make_prefix_trie has returned; chain = recur(0).
CallRecur0 ==
    /\ pc = "build"
    /\ inserted = words
    /\ pc' = "solve"
    /\ stack' = <<Frame(0)>>
    /\ evals' = [evals EXCEPT ![0] = @ + 1]
    /\ requests' = requests \cup {<<-1, 0>>}
    /\ dups' = 0
    /\ UNCHANGED <<text, words, inserted, first, trie, cache, ret, outcome, prev>>

\* Lines 128-130: the suffix is empty.
RecurBase ==
    /\ pc = "solve" /\ stack # <<>> /\ ~ret.has
    /\ Slice(text, Top.index) = <<>>
    /\ cache' = (Top.index :> Some(EMPTY)) @@ cache
    /\ ret' = [has |-> TRUE, val |-> Some(EMPTY)]
    /\ stack' = SubSeq(stack, 1, Len(stack) - 1)
    /\ UNCHANGED <<text, words, pc, inserted, first, dups, trie, outcome, evals, requests, prev>>

\* Lines 132-133: the generator yields its next prefix and recur is called
\* on index + len(prefix): functools.cache answers from the cache, or the
\* body is entered, or the interpreter's recursion limit is hit.
RecurNext ==
    /\ pc = "solve" /\ stack # <<>> /\ ~ret.has
    /\ Slice(text, Top.index) # <<>>
    /\ Top.taken < Len(Top.gen)
    /\ LET prefix == Top.gen[Top.taken + 1]
           index  == Top.index + Len(prefix)
           caller == [Top EXCEPT !.taken = @ + 1, !.prefix = prefix]
           below  == SubSeq(stack, 1, Len(stack) - 1)
       IN  /\ requests' = requests \cup {<<Top.index, index>>}
           /\ IF index \in DOMAIN cache
              THEN /\ ret' = [has |-> TRUE, val |-> cache[index]]
                   /\ stack' = Append(below, caller)
                   /\ UNCHANGED <<pc, outcome, evals>>
              ELSE IF Len(stack) >= RecursionLimit
              THEN /\ outcome' = Raised("RecursionError")
                   /\ pc' = "done"
                   /\ stack' = <<>>
                   /\ UNCHANGED <<ret, evals>>
              ELSE /\ stack' = Append(Append(below, caller), Frame(index))
                   /\ evals' = [evals EXCEPT ![index] = @ + 1]
                   /\ UNCHANGED <<pc, outcome, ret>>
    /\ UNCHANGED <<text, words, inserted, first, dups, trie, cache, prev>>

\* The for loop ends without a return: recur returns None.
RecurFail ==
    /\ pc = "solve" /\ stack # <<>> /\ ~ret.has
    /\ Slice(text, Top.index) # <<>>
    /\ Top.taken = Len(Top.gen)
    /\ cache' = (Top.index :> None) @@ cache
    /\ ret' = [has |-> TRUE, val |-> None]
    /\ stack' = SubSeq(stack, 1, Len(stack) - 1)
    /\ UNCHANGED <<text, words, pc, inserted, first, dups, trie, outcome, evals, requests, prev>>

\* Lines 134-135: the inner call has returned suffix_solution.
RecurResume ==
    /\ pc = "solve" /\ stack # <<>> /\ ret.has
    /\ IF ret.val # None
       THEN LET chain == prepend(Top.prefix, The(ret.val))
            IN  /\ cache' = (Top.index :> Some(chain)) @@ cache
                /\ ret' = [has |-> TRUE, val |-> Some(chain)]
                /\ stack' = SubSeq(stack, 1, Len(stack) - 1)
       ELSE /\ ret' = NoRet
            /\ UNCHANGED <<cache, stack>>
    /\ UNCHANGED <<text, words, pc, inserted, first, dups, trie, outcome, evals, requests, prev>>

\* Lines 137-140: recur(0) has returned.
Finish ==
    /\ pc = "solve" /\ stack = <<>> /\ ret.has
    /\ outcome' = Render(ret.val)
    /\ pc' = "done"
    /\ ret' = NoRet
    /\ UNCHANGED <<text, words, inserted, first, dups, trie, cache, stack, evals, requests, prev>>

\* A second call of solution_recursive on the same text and the same set.
CallAgain ==
    /\ pc = "done"
    /\ prev = None
    /\ prev' = Some([outcome |-> outcome, first |-> first, trie |-> trie])
    /\ pc' = "build"
    /\ inserted' = {}
    /\ first' = None
    /\ dups' = 0
    /\ trie' = EmptyDict
    /\ cache' = EmptyDict
    /\ stack' = <<>>
    /\ ret' = NoRet
    /\ outcome' = NoOutcome
    /\ evals' = [p \in 0..Len(text) |-> 0]
    /\ requests' = {}
    /\ UNCHANGED <<text, words>>

Next ==
    \/ AddWord
    \/ CallRecur0
    \/ RecurBase
    \/ RecurNext
    \/ RecurFail
    \/ RecurResume
    \/ Finish
    \/ CallAgain

Spec == Init /\ [][Next]_vars

----------------------------------------------------------------------------
(* What the properties speak of: segmentations, independently of the trie. *)

NoEmpty(D) == <<>> \notin D

IsPrefix(w, s) == Len(w) <= Len(s) /\ SubSeq(s, 1, Len(w)) = w

RECURSIVE Segmentable(_, _)
\* s is a concatenation of zero or more non-empty members of D.
Segmentable(s, D) ==
    \/ s = <<>>
    \/ \E w \in D : w # <<>> /\ IsPrefix(w, s) /\ Segmentable(Slice(s, Len(w)), D)

RECURSIVE Flatten(_)
Flatten(ws) == IF ws = <<>> THEN <<>> ELSE Head(ws) \o Flatten(Tail(ws))

RECURSIVE Split(_)
\* The pieces of s between its spaces (at least one piece).
Split(s) ==
    IF \A i \in 1..Len(s) : s[i] # Space THEN <<s>>
    ELSE LET i == CHOOSE j \in 1..Len(s) :
                     s[j] = Space /\ \A k \in 1..(j - 1) : s[k] # Space
         IN  <<SubSeq(s, 1, i - 1)>> \o Split(SubSeq(s, i + 1, Len(s)))

Done == pc = "done"

\* The text is w1..wn for n >= 1 words of a dictionary of non-empty words.
Concatenation == NoEmpty(words) /\ text # <<>> /\ Segmentable(text, words)

----------------------------------------------------------------------------
C2_ReturnsNone ==
    (Done /\ NoEmpty(words) /\ ~Segmentable(text, words)) => outcome.kind = "None"

\* C3 (empty input), as claimed: for a non-empty dictionary and the empty
\* text, solution_recursive returns the empty str and raises nothing.
C3_EmptyTextReturnsEmptyStr ==
    (Done /\ text = <<>> /\ words # {} /\ NoEmpty(words)) => outcome = Returned(<<>>)

\* C4 (construction validation), as claimed: once make_prefix_trie is over
\* for a dictionary that holds the empty str, the call has failed with
\* InvalidWord, and no trie is searched.
C4_EmptyWordRejected ==
    (<<>> \in words /\ pc # "build") => outcome.kind = "InvalidWord"

RECURSIVE ShortestFirst(_, _)
\* The words chosen from position 0 on, each the shortest word of D that is
\* a prefix of what is left and leaves a segmentable rest.
ShortestFirst(s, D) ==
    IF s = <<>> THEN <<>>
    ELSE LET fits == {w \in D : w # <<>> /\ IsPrefix(w, s)
                                 /\ Segmentable(Slice(s, Len(w)), D)}
             w == CHOOSE x \in fits : \A y \in fits : Len(x) <= Len(y)
         IN  <<w>> \o ShortestFirst(Slice(s, Len(w)), D)

\* C5 (tie-break), as claimed: for a dictionary of non-empty words and every
\* segmentable text, the words returned are the shortest-first choice at each
\* position.
C5_ShortestFirst ==
    (Done /\ NoEmpty(words) /\ Segmentable(text, words)) =>
        outcome = Returned(Join(ShortestFirst(text, words)))

\* The same for the texts of one word or more, where a chain has a link.
ShortestFirstOfConcatenation ==
    (Done /\ Concatenation) => outcome = Returned(Join(ShortestFirst(text, words)))

\* C6 (determinism): a second call on the same text and the same set ends as
\* the first did, whatever the order in which the set's words went into the
\* trie.
C6_Determinism ==
    (Done /\ prev # None) => outcome = The(prev).outcome

\* Two finished calls that returned, whose tries were filled starting with
\* different words.
C6_Witness ==
    /\ Done /\ prev # None
    /\ first # The(prev).first
    /\ first # None /\ The(prev).first # None
    /\ The(prev).outcome.kind = "return"
    /\ \E p \in DOMAIN cache : cache[p] = None

\* C7 (prefix query): for a trie of non-empty words, what prefixes_of yields
\* for a suffix is exactly the words of the dictionary that are prefixes of
\* the suffix, in strictly increasing length.
C7_PrefixQuery ==
    NoEmpty(words) =>
        \A i \in DOMAIN stack :
            LET gen == stack[i].gen
                s   == Slice(text, stack[i].index)
            IN  s # <<>> =>
                  /\ \A w \in words : IsPrefix(w, s) <=> \E k \in DOMAIN gen : gen[k] = w
                  /\ \A k \in DOMAIN gen : gen[k] \in words /\ IsPrefix(gen[k], s)
                  /\ \A k \in 1..(Len(gen) - 1) : Len(gen[k]) < Len(gen[k + 1])

\* A query that yielded two words and stopped before the end of the suffix.
C7_Witness ==
    /\ NoEmpty(words)
    /\ \E i \in DOMAIN stack :
         /\ Len(stack[i].gen) >= 2
         /\ Len(stack[i].gen[Len(stack[i].gen)]) < Len(Slice(text, stack[i].index))
         /\ \E w \in words : ~IsPrefix(w, Slice(text, stack[i].index))

RECURSIVE Markers(_, _)
\* The <<path, word>> of every node of the trie that has the key "".
Markers(node, path) ==
    (IF EmptyKey \in DOMAIN node THEN {<<path, node[EmptyKey]>>} ELSE {})
    \cup UNION {Markers(node[l], Append(path, l)) : l \in DOMAIN node \ {EmptyKey}}

RECURSIVE Paths(_, _)
\* The path of every node of the trie.
Paths(node, path) ==
    {path} \cup UNION {Paths(node[l], Append(path, l)) : l \in DOMAIN node \ {EmptyKey}}

PrefixesIn(D) == {<<>>} \cup UNION {{SubSeq(w, 1, k) : k \in 0..Len(w)} : w \in D}

\* C8 (trie invariant): after any insertions of non-empty words, repeated or
\* not, the marked paths are exactly the inserted words, each marker is the
\* word its path spells, and the nodes are exactly the prefixes of the
\* inserted words (one node per path: a dict has one value per letter).
C8_TrieInvariant ==
    NoEmpty(inserted) =>
        /\ Markers(trie, <<>>) = {<<w, w>> : w \in inserted}
        /\ Paths(trie, <<>>) = PrefixesIn(inserted)

\* Two words, one a proper prefix of the other, and a word inserted twice.
C8_Witness ==
    /\ pc = "build"
    /\ NoEmpty(inserted)
    /\ dups >= 1
    /\ \E v, w \in inserted : v # w /\ IsPrefix(v, w)

\* C9 (memoization), as claimed: in one call the body of recur is entered at
\* most once per position, only positions 0..len(text) are requested, and
\* at most len(text)+1 results are computed.
C9_BodyOncePerPosition ==
    /\ \A p \in DOMAIN evals : evals[p] <= 1
    /\ \A r \in requests : r[2] \in 0..Len(text)
    /\ Cardinality(DOMAIN cache) <= Len(text) + 1

\* The same for dictionaries of non-empty words.
BodyOncePerPositionNoEmpty ==
    NoEmpty(words) => C9_BodyOncePerPosition

\* C10 (termination), as claimed: whenever make_prefix_trie has produced a
\* trie, every call of recur from recur is at a position above its caller's
\* and at most len(text), and the call ends without exhausting the stack.
C10_PositionsIncrease ==
    /\ \A r \in requests : r[1] < r[2] /\ r[2] <= Len(text)
    /\ outcome.kind # "RecursionError"

\* The same for dictionaries of non-empty words.
PositionsIncreaseNoEmpty ==
    NoEmpty(words) => C10_PositionsIncrease

====
